---- MODULE Spec2Model ----
(***************************************************************************)
(* Follow graph, home feed and selection-mode cookie of the Talos social   *)
(* blog (app/main/views.py, app/auth/views.py).                            *)
(*                                                                         *)
(* One browser talks to the application: it holds the login session        *)
(* (current_user) and the cookie jar (cookies).  The database holds the    *)
(* follows table and the posts table.  Every view function is one action;  *)
(* the response it returns is recorded in `last`.                          *)
(*                                                                         *)
(* Spec is the whole application served one request at a time.  SpecGraph  *)
(* and SpecFeed are its two halves (the views of the follow graph; the     *)
(* views of the feed and its mode cookie).  SpecConc splits follow() into  *)
(* its lookup, add and commit steps and runs two workers side by side.     *)
(* models.py, decorators.py and the application factory are not part of    *)
(* the sources at hand: User.follow, User.unfollow, User.is_following,     *)
(* User.followed_posts, User.can, the Follow key, Post.timestamp and the   *)
(* page size follow the written specification.                             *)
(***************************************************************************)
EXTENDS Integers, Sequences, FiniteSets

\* ------------------------------------------------------------------ bounds
MaxPosts == 3      \* rows the posts table may hold
PostsPerPage == 2  \* value bound to config['TALOS_POSTS_PER_PAGE']

\* ------------------------------------------------------------------ domains
Users == {"alice", "bob"}            \* rows of the users table
Names == Users \cup {"ghost"}        \* usernames a URL may carry
Anonymous == "anonymous"             \* flask_login's AnonymousUserMixin
None == "None"
Workers == {1, 2}                    \* request workers of the concurrent model

VARIABLES
    follows,       \* follows table: [<<follower, followed>> -> number of rows]
    posts,         \* posts table in insertion order: Seq([author, timestamp])
    current_user,  \* the browser's login session
    cookies,       \* the browser's cookie jar: [cookie name -> value]
    last,          \* the response to the most recent request
    mode_set,      \* history: the mode of the most recent /all or /followed served
    pc,            \* concurrent model: each worker's position in follow()
    wreq,          \* concurrent model: each worker's request
    wres           \* concurrent model: each worker's outcome

vars == <<follows, posts, current_user, cookies, last, mode_set, pc, wreq, wres>>
dbvars == <<follows, posts>>
wvars == <<pc, wreq, wres>>

Pairs == Users \X Users

\* ------------------------------------------------------------------ helpers
\* Python's bool(str): the empty string is falsy, any other string truthy.
Bool(s) == Len(s) > 0

\* request.cookies.get(key, default)
CookiesGet(jar, key, default) == IF key \in DOMAIN jar THEN jar[key] ELSE default

\* resp.set_cookie(key, value)
SetCookie(jar, key, value) ==
    [k \in (DOMAIN jar) \cup {key} |-> IF k = key THEN value ELSE jar[k]]

\* User.query.filter_by(username=username).first()
UserQueryFirst(username) == IF username \in Users THEN username ELSE None

\* current_user.is_authenticated
is_authenticated(u) == u \in Users

\* current_user.can(permission): every registered role holds FOLLOW and WRITE,
\* the anonymous user holds nothing.
Can(u, permission) == u \in Users

\* User.is_following(user): a row (self, user) exists.
is_following(tbl, a, b) == tbl[<<a, b>>] > 0

\* User.follow(user): fails with InvalidTarget on a self-follow, otherwise adds
\* the row to the session if the edge is absent.
UserFollow(tbl, a, b) ==
    [raised |-> (a = b),
     add    |-> IF a # b /\ ~is_following(tbl, a, b) THEN {<<a, b>>} ELSE {}]

\* User.unfollow(user): marks one row (self, user) for deletion if present.
UserUnfollow(tbl, a, b) == IF is_following(tbl, a, b) THEN {<<a, b>>} ELSE {}

\* db.session.commit() of pending inserts: the composite key
\* (follower_id, followed_id) rejects a second row for the same pair.
CommitConflict(tbl, add) == \E p \in add : tbl[p] > 0
CommitInsert(tbl, add) == [p \in Pairs |-> IF p \in add THEN tbl[p] + 1 ELSE tbl[p]]
CommitDelete(tbl, del) == [p \in Pairs |-> IF p \in del THEN tbl[p] - 1 ELSE tbl[p]]

\* ------------------------------------------------------------------ responses
NoItems == << >>
Resp(op, user, target, status, flash, message, redirect, committed) ==
    [op |-> op, user |-> user, target |-> target, status |-> status,
     flash |-> flash, message |-> message, redirect |-> redirect,
     committed |-> committed, show_followed |-> FALSE, page |-> 0,
     items |-> NoItems, total |-> 0]

\* flask_login.login_required: an anonymous request never reaches the view.
Unauthorized(op, target) ==
    Resp(op, Anonymous, target, 401, "none", "", "auth.login", FALSE)

\* ------------------------------------------------------------------ follow
\* follow(username) run as `cu` on the follows table `tbl`; the result is the
\* response and the follows table after the request.
\* Variant of follow_view: the view inserts the row itself instead of calling
\* User.follow.
follow_direct_add(cu, username, tbl) ==
    LET user == UserQueryFirst(username) IN
    IF user = None
    THEN [resp |-> Resp("follow", cu, username, 302, "warning", "Invalid user.", ".home", FALSE),
          follows |-> tbl]
    ELSE IF is_following(tbl, cu, user)
    THEN [resp |-> Resp("follow", cu, username, 302, "info",
                        "You are already following this user.", ".user", FALSE),
          follows |-> tbl]
    ELSE [resp |-> Resp("follow", cu, username, 302, "success",
                        "You are now following", ".user", TRUE),
          follows |-> CommitInsert(tbl, {<<cu, user>>})]

\* Variant of follow_view: no is_following check, and the row inserted directly.
follow_unchecked_add(cu, username, tbl) ==
    LET user == UserQueryFirst(username) IN
    IF user = None
    THEN [resp |-> Resp("follow", cu, username, 302, "warning", "Invalid user.", ".home", FALSE),
          follows |-> tbl]
    ELSE [resp |-> Resp("follow", cu, username, 302, "success",
                        "You are now following", ".user", TRUE),
          follows |-> CommitInsert(tbl, {<<cu, user>>})]

\* follow(), lines 137-148, past the decorators.
follow_view(cu, username, tbl) ==
    LET user == UserQueryFirst(username) IN
    IF user = None
    THEN [resp |-> Resp("follow", cu, username, 302, "warning", "Invalid user.", ".home", FALSE),
          follows |-> tbl]
    ELSE IF is_following(tbl, cu, user)
    THEN [resp |-> Resp("follow", cu, username, 302, "info",
                        "You are already following this user.", ".user", FALSE),
          follows |-> tbl]
    ELSE LET f == UserFollow(tbl, cu, user) IN
         IF f.raised
         THEN \* the exception leaves the view: no commit, no flash
              [resp |-> Resp("follow", cu, username, 500, "none", "InvalidTarget", "", FALSE),
               follows |-> tbl]
         ELSE IF CommitConflict(tbl, f.add)
         THEN [resp |-> Resp("follow", cu, username, 500, "none", "IntegrityError", "", FALSE),
               follows |-> tbl]
         ELSE [resp |-> Resp("follow", cu, username, 302, "success",
                             "You are now following", ".user", TRUE),
               follows |-> CommitInsert(tbl, f.add)]

follow ==
    \E username \in Names :
        /\ IF ~is_authenticated(current_user)
           THEN /\ last' = Unauthorized("follow", username)
                /\ follows' = follows
           ELSE IF ~Can(current_user, "FOLLOW")
           THEN /\ last' = Resp("follow", current_user, username, 403, "none", "", "", FALSE)
                /\ follows' = follows
           ELSE LET r == follow_view(current_user, username, follows) IN
                /\ last' = r.resp
                /\ follows' = r.follows
        /\ UNCHANGED <<posts, current_user, cookies, mode_set, wvars>>

\* ------------------------------------------------------------------ unfollow
\* Variant of unfollow_view: no is_following check before the removal.
unfollow_no_precheck(cu, username, tbl) ==
    LET user == UserQueryFirst(username) IN
    IF user = None
    THEN [resp |-> Resp("unfollow", cu, username, 302, "warning", "Invalid user.", ".home", FALSE),
          follows |-> tbl]
    ELSE [resp |-> Resp("unfollow", cu, username, 302, "success",
                        "You are not following anymore", ".user", TRUE),
          follows |-> CommitDelete(tbl, UserUnfollow(tbl, cu, user))]

\* Variant of unfollow_view: the call of User.unfollow is left out.
unfollow_no_delete(cu, username, tbl) ==
    LET user == UserQueryFirst(username) IN
    IF user = None
    THEN [resp |-> Resp("unfollow", cu, username, 302, "warning", "Invalid user.", ".home", FALSE),
          follows |-> tbl]
    ELSE IF ~is_following(tbl, cu, user)
    THEN [resp |-> Resp("unfollow", cu, username, 302, "info",
                        "You are not following this user.", ".user", FALSE),
          follows |-> tbl]
    ELSE [resp |-> Resp("unfollow", cu, username, 302, "success",
                        "You are not following anymore", ".user", TRUE),
          follows |-> tbl]

\* unfollow(), lines 154-165, past the decorators.
unfollow_view(cu, username, tbl) ==
    LET user == UserQueryFirst(username) IN
    IF user = None
    THEN [resp |-> Resp("unfollow", cu, username, 302, "warning", "Invalid user.", ".home", FALSE),
          follows |-> tbl]
    ELSE IF ~is_following(tbl, cu, user)
    THEN [resp |-> Resp("unfollow", cu, username, 302, "info",
                        "You are not following this user.", ".user", FALSE),
          follows |-> tbl]
    ELSE [resp |-> Resp("unfollow", cu, username, 302, "success",
                        "You are not following anymore", ".user", TRUE),
          follows |-> CommitDelete(tbl, UserUnfollow(tbl, cu, user))]

unfollow ==
    \E username \in Names :
        /\ IF ~is_authenticated(current_user)
           THEN /\ last' = Unauthorized("unfollow", username)
                /\ follows' = follows
           ELSE IF ~Can(current_user, "FOLLOW")
           THEN /\ last' = Resp("unfollow", current_user, username, 403, "none", "", "", FALSE)
                /\ follows' = follows
           ELSE LET r == unfollow_view(current_user, username, follows) IN
                /\ last' = r.resp
                /\ follows' = r.follows
        /\ UNCHANGED <<posts, current_user, cookies, mode_set, wvars>>

\* ------------------------------------------------------------------ feed
\* Post ids are positions in the posts table (insertion order).
PostIds(tbl) == 1..Len(tbl)

\* Post.query: every post.
PostQuery(tbl) == PostIds(tbl)

\* User.followed_posts: the posts whose author the user follows.
followed_posts(tbl, ftbl, u) == {i \in PostIds(tbl) : is_following(ftbl, u, tbl[i].author)}

\* Post.timestamp default: the server clock, never behind the newest post.
\* Timestamps are only compared, so between two inserts the clock either stands
\* still (a tie) or advances by one tick; the first post is stamped 0.
LastTimestamp(tbl) == IF tbl = << >> THEN 0 ELSE tbl[Len(tbl)].timestamp
NewTimestamps(tbl) ==
    IF tbl = << >> THEN {0} ELSE {LastTimestamp(tbl), LastTimestamp(tbl) + 1}

\* query.order_by(Post.timestamp.desc()): the database may return rows of equal
\* timestamp in any order, so every ordering with non-increasing timestamps is a
\* possible result.  Built row by row: the next row is any of the newest left.
RECURSIVE OrderByTimestampDesc(_, _)
OrderByTimestampDesc(tbl, ids) ==
    IF ids = {} THEN {<< >>}
    ELSE LET newest == {i \in ids : \A j \in ids : tbl[i].timestamp >= tbl[j].timestamp}
         IN UNION {{<<i>> \o rest : rest \in OrderByTimestampDesc(tbl, ids \ {i})} : i \in newest}

\* seq[from..to], empty when from > to.
Slice(seq, from, to) == [i \in 1..(IF to >= from THEN to - from + 1 ELSE 0) |-> seq[from + i - 1]]

Min(a, b) == IF a <= b THEN a ELSE b

\* BaseQuery.paginate(page, per_page, error_out) over the ordered rows.
Paginate(rows, page, per_page, error_out) ==
    LET p == IF page < 1 THEN 1 ELSE page
        items == Slice(rows, (p - 1) * per_page + 1, Min(p * per_page, Len(rows)))
    IN [aborted |-> error_out /\ (page < 1 \/ (items = << >> /\ p # 1)),
        page |-> p, per_page |-> per_page, total |-> Len(rows), items |-> items]

\* request.args.get('page', 1, type=int)
PageArgs == 0..(MaxPosts + 1)
NoArgs == [k \in {} |-> 0]
RequestArgs == {NoArgs} \cup {[k \in {"page"} |-> n] : n \in PageArgs}
ArgsGet(args, key, default) == IF key \in DOMAIN args THEN args[key] ELSE default

\* home(), lines 36-38: the selection mode of the request.
\* Variant of home_show_followed: the cookie is read for every viewer.
home_show_followed_any_viewer(cu, jar) == Bool(CookiesGet(jar, "show_followed", << >>))

home_show_followed(cu, jar) ==
    IF is_authenticated(cu) THEN Bool(CookiesGet(jar, "show_followed", << >>)) ELSE FALSE

\* home(), lines 39-42: the query selected by the mode.
home_query(cu, jar, tbl, ftbl) ==
    IF home_show_followed(cu, jar) THEN followed_posts(tbl, ftbl, cu) ELSE PostQuery(tbl)

\* home(), line 43: the query that is ordered and paginated.
home_paginated_query(cu, jar, tbl, ftbl) == PostQuery(tbl)

\* home(), lines 43-45: the paginate call.
\* Variant of home_paginate: error_out left at its default, True.
home_paginate_error_out(rows, page) == Paginate(rows, page, PostsPerPage, TRUE)

home_paginate(rows, page) == Paginate(rows, page, PostsPerPage, FALSE)

home ==
    \E submit \in BOOLEAN :
        /\ IF Can(current_user, "WRITE") /\ submit
           THEN \E ts \in NewTimestamps(posts) :
                /\ Len(posts) < MaxPosts
                /\ posts' = Append(posts, [author |-> current_user, timestamp |-> ts])
                /\ last' = Resp("home", current_user, None, 302, "none", "", "main.home", TRUE)
           ELSE \E args \in RequestArgs :
                \E rows \in OrderByTimestampDesc(posts,
                               home_paginated_query(current_user, cookies, posts, follows)) :
                LET page == ArgsGet(args, "page", 1)
                    pagination == home_paginate(rows, page)
                IN /\ posts' = posts
                   /\ last' = IF pagination.aborted
                              THEN Resp("home", current_user, None, 404, "none", "", "", FALSE)
                              ELSE [Resp("home", current_user, None, 200, "none", "", "", FALSE)
                                    EXCEPT !.show_followed = home_show_followed(current_user, cookies),
                                           !.page = pagination.page,
                                           !.items = pagination.items,
                                           !.total = pagination.total]
        /\ UNCHANGED <<follows, current_user, cookies, mode_set, wvars>>

\* ------------------------------------------------------------------ selection mode
\* show_all(), line 208 and show_followed(), line 216: the cookie values.
\* Variant of show_all_value: the cookie is set to '0'.
show_all_value_zero == <<"0">>

show_all_value == << >>

show_followed_value == <<"1">>

show_all ==
    /\ IF ~is_authenticated(current_user)
       THEN /\ last' = Unauthorized("show_all", None)
            /\ cookies' = cookies
            /\ mode_set' = mode_set
       ELSE /\ cookies' = SetCookie(cookies, "show_followed", show_all_value)
            /\ last' = Resp("show_all", current_user, None, 302, "none", "", ".index", FALSE)
            /\ mode_set' = "all"
    /\ UNCHANGED <<dbvars, current_user, wvars>>

show_followed ==
    /\ IF ~is_authenticated(current_user)
       THEN /\ last' = Unauthorized("show_followed", None)
            /\ cookies' = cookies
            /\ mode_set' = mode_set
       ELSE /\ cookies' = SetCookie(cookies, "show_followed", show_followed_value)
            /\ last' = Resp("show_followed", current_user, None, 302, "none", "", ".index", FALSE)
            /\ mode_set' = "followed"
    /\ UNCHANGED <<dbvars, current_user, wvars>>

\* ------------------------------------------------------------------ auth
\* login(): the form names a user by e-mail and carries a password.
login ==
    \E email \in Names, password_ok \in BOOLEAN :
        /\ IF email \in Users /\ password_ok
           THEN /\ current_user' = email
                /\ last' = Resp("login", email, email, 302, "none", "", "main.index", FALSE)
           ELSE /\ current_user' = current_user
                /\ last' = Resp("login", current_user, email, 200, "danger",
                                "Invalid email or password.", "", FALSE)
        /\ UNCHANGED <<dbvars, cookies, mode_set, wvars>>

logout ==
    /\ IF ~is_authenticated(current_user)
       THEN /\ last' = Unauthorized("logout", None)
            /\ current_user' = current_user
       ELSE /\ current_user' = Anonymous
            /\ last' = Resp("logout", current_user, None, 302, "success",
                            "You have been logged out.", "main.index", FALSE)
    /\ UNCHANGED <<dbvars, cookies, mode_set, wvars>>

\* ------------------------------------------------------------------ system
Init ==
    /\ follows = [p \in Pairs |-> 0]
    /\ posts = << >>
    /\ current_user = Anonymous
    /\ cookies = [k \in {} |-> << >>]
    /\ last = Resp("start", Anonymous, None, 0, "none", "", "", FALSE)
    /\ mode_set = "none"
    /\ pc = [w \in Workers |-> "idle"]
    /\ wreq = [w \in Workers |-> [actor |-> None, target |-> None, pending |-> {}]]
    /\ wres = [w \in Workers |-> "none"]

\* ------------------------------------------------------------------ concurrent follow
\* Two workers serve /follow/<username> at once, each with its own database
\* session: a session sees the committed rows and its own pending rows only.
\* wreq[w] = the request's user, the username of the URL and the pending rows.
Receive(w) ==
    /\ pc[w] = "idle"
    /\ \E actor \in Users, username \in Names :
           wreq' = [wreq EXCEPT ![w] = [actor |-> actor, target |-> username, pending |-> {}]]
    /\ pc' = [pc EXCEPT ![w] = "lookup"]
    /\ wres' = [wres EXCEPT ![w] = "none"]
    /\ UNCHANGED <<dbvars, current_user, cookies, last, mode_set>>

\* follow(), lines 138-144: the user lookup and the is_following check.
Check(w) ==
    /\ pc[w] = "lookup"
    /\ LET user == UserQueryFirst(wreq[w].target) IN
       IF user = None
       THEN /\ pc' = [pc EXCEPT ![w] = "done"]
            /\ wres' = [wres EXCEPT ![w] = "Invalid user."]
       ELSE IF is_following(follows, wreq[w].actor, user)
       THEN /\ pc' = [pc EXCEPT ![w] = "done"]
            /\ wres' = [wres EXCEPT ![w] = "You are already following this user."]
       ELSE /\ pc' = [pc EXCEPT ![w] = "checked"]
            /\ wres' = wres
    /\ UNCHANGED <<dbvars, current_user, cookies, last, mode_set, wreq>>

\* follow(), line 145: current_user.follow(user) adds the row to the session.
Add(w) ==
    /\ pc[w] = "checked"
    /\ LET f == UserFollow(follows, wreq[w].actor, wreq[w].target) IN
       IF f.raised
       THEN /\ pc' = [pc EXCEPT ![w] = "done"]
            /\ wres' = [wres EXCEPT ![w] = "InvalidTarget"]
            /\ wreq' = wreq
       ELSE /\ pc' = [pc EXCEPT ![w] = "added"]
            /\ wreq' = [wreq EXCEPT ![w].pending = f.add]
            /\ wres' = wres
    /\ UNCHANGED <<dbvars, current_user, cookies, last, mode_set>>

\* follow(), lines 146-148: db.session.commit(), then the flash and redirect.
Commit(w) ==
    /\ pc[w] = "added"
    /\ IF CommitConflict(follows, wreq[w].pending)
       THEN /\ follows' = follows
            /\ wres' = [wres EXCEPT ![w] = "IntegrityError"]
       ELSE /\ follows' = CommitInsert(follows, wreq[w].pending)
            /\ wres' = [wres EXCEPT ![w] = "You are now following"]
    /\ pc' = [pc EXCEPT ![w] = "done"]
    /\ UNCHANGED <<posts, current_user, cookies, last, mode_set, wreq>>

\* The response is sent; the worker takes the next request.
Finish(w) ==
    /\ pc[w] = "done"
    /\ pc' = [pc EXCEPT ![w] = "idle"]
    /\ UNCHANGED <<dbvars, current_user, cookies, last, mode_set, wreq, wres>>

Next ==
    \/ follow
    \/ unfollow
    \/ home
    \/ show_all
    \/ show_followed
    \/ login
    \/ logout

Spec == Init /\ [][Next]_vars

\* The follow graph alone: the requests that read or write the follows table.
NextGraph ==
    \/ follow
    \/ unfollow
    \/ login
    \/ logout

SpecGraph == Init /\ [][NextGraph]_vars

\* The feed alone: the requests that read or write posts and the mode cookie.
NextFeed ==
    \/ home
    \/ show_all
    \/ show_followed
    \/ login
    \/ logout

SpecFeed == Init /\ [][NextFeed]_vars

\* Concurrent /follow requests.
NextConc ==
    \E w \in Workers :
        \/ Receive(w)
        \/ Check(w)
        \/ Add(w)
        \/ Commit(w)
        \/ Finish(w)

SpecConc == Init /\ [][NextConc]_vars

\* ================================================================== claims
HomeListing == last.op = "home" /\ last.status = 200
Ceil(n, d) == (n + d - 1) \div d

\* C1: in "followed" mode every post of the page home() returns to an
\* authenticated viewer is authored by a user the viewer follows.
C1_FollowedPageOnlyFollowedAuthors ==
    (HomeListing /\ last.show_followed) =>
        \A i \in DOMAIN last.items :
            is_following(follows, last.user, posts[last.items[i]].author)

C3_FollowUnfollowRoundTrip ==
    [][\A a, b \in Users :
          (a # b /\ last'.user = a /\ last'.target = b) =>
              /\ last'.op = "follow" =>
                     /\ is_following(follows', a, b)
                     /\ \A p \in Pairs \ {<<a, b>>} : follows'[p] = follows[p]
              /\ last'.op = "unfollow" =>
                     /\ ~is_following(follows', a, b)
                     /\ \A p \in Pairs \ {<<a, b>>} : follows'[p] = follows[p]
      ]_vars

C3_Witness ==
    /\ last.op = "unfollow" /\ last.user = "alice" /\ last.target = "bob"
    /\ last.flash = "success"
    /\ ~is_following(follows, "alice", "bob")
    /\ is_following(follows, "bob", "alice")

\* C4: a follow request for (A, B) served right after a successful follow request
\* for (A, B) leaves the follows table unchanged with exactly one row (A, B), and
\* ends with an informational flash and a redirect, not an error.
C4_SecondFollowIsNoOp ==
    [][\A a, b \in Users :
          ( /\ last.op = "follow" /\ last.user = a /\ last.target = b
            /\ last.flash = "success"
            /\ last'.op = "follow" /\ last'.user = a /\ last'.target = b ) =>
              /\ follows' = follows
              /\ follows'[<<a, b>>] = 1
              /\ last'.flash = "info"
              /\ last'.message = "You are already following this user."
              /\ last'.status = 302
              /\ ~last'.committed
      ]_vars

C4_Witness ==
    /\ last.op = "follow" /\ last.user = "alice" /\ last.target = "bob"
    /\ last.flash = "info"
    /\ follows[<<"alice", "bob">>] = 1

\* C5: two follow requests for the same pair (A, B) served concurrently leave
\* exactly one row (A, B) and neither ends in a failure.
C5_ConcurrentFollowBenign ==
    \A w1, w2 \in Workers :
        ( /\ w1 # w2
          /\ pc[w1] = "done" /\ pc[w2] = "done"
          /\ wreq[w1].actor = wreq[w2].actor /\ wreq[w1].target = wreq[w2].target
          /\ wreq[w1].target \in Users /\ wreq[w1].actor # wreq[w1].target ) =>
            /\ follows[<<wreq[w1].actor, wreq[w1].target>>] = 1
            /\ wres[w1] \notin {"IntegrityError", "InvalidTarget"}
            /\ wres[w2] \notin {"IntegrityError", "InvalidTarget"}

\* C6: an unfollow request for a pair (A, B) with no row leaves the follows
\* table unchanged and ends with an informational flash and a redirect, without
\* a removal, a commit or an error.
C6_UnfollowAbsentIsNoOp ==
    [][\A a, b \in Users :
          ( /\ last'.op = "unfollow" /\ last'.user = a /\ last'.target = b
            /\ ~is_following(follows, a, b) ) =>
              /\ follows' = follows
              /\ last'.flash = "info"
              /\ last'.message = "You are not following this user."
              /\ last'.status = 302
              /\ last'.redirect = ".user"
              /\ ~last'.committed
      ]_vars

C6_Witness ==
    /\ last.op = "unfollow" /\ last.user = "alice" /\ last.target = "bob"
    /\ last.flash = "info"
    /\ is_following(follows, "bob", "alice")

C7_WitnessBeyond ==
    /\ HomeListing
    /\ Len(posts) = 3 /\ last.page = Ceil(3, PostsPerPage) + 1
    /\ last.items = << >>

\* C8: in "all" mode the page lists posts newest first, and posts of equal
\* timestamp in insertion order.
C8_NewestFirstTiesByInsertion ==
    (HomeListing /\ ~last.show_followed) =>
        \A i, j \in DOMAIN last.items :
            i < j =>
                LET x == last.items[i]
                    y == last.items[j]
                IN \/ posts[x].timestamp > posts[y].timestamp
                   \/ (posts[x].timestamp = posts[y].timestamp /\ x < y)

\* C9: home() serves an anonymous viewer in "all" mode whatever the
\* show_followed cookie holds.
C9_AnonymousAlwaysAll ==
    (HomeListing /\ last.user = Anonymous) =>
        /\ ~last.show_followed
        /\ last.total = Len(posts)

C9_Witness ==
    /\ HomeListing /\ last.user = Anonymous
    /\ Bool(CookiesGet(cookies, "show_followed", << >>))
    /\ Len(last.items) > 0

\* C10: for an authenticated viewer the mode home() reads is the mode of the
\* most recent /all or /followed request served, and "all" when none was.
C10_ModeIsLastSet ==
    /\ \A u \in Users : home_show_followed(u, cookies) = (mode_set = "followed")
    /\ (HomeListing /\ last.user \in Users) =>
           last.show_followed = (mode_set = "followed")

C10_Witness ==
    /\ HomeListing /\ last.user \in Users
    /\ mode_set = "followed" /\ last.show_followed

\* A second case of C10: back to "all" after /all.
C10_WitnessAll ==
    /\ HomeListing /\ last.user \in Users
    /\ mode_set = "all" /\ ~last.show_followed
====
